---- MODULE Spec2Model ----
(***************************************************************************)
(* Model of the dotThz metadata codec: DotthzFile::set_meta_data,          *)
(* DotthzFile::get_meta_data, add_group, remove_meta_data_attribute and    *)
(* add_dataset of src/src/dotthz.rs, over an HDF5 file reduced to what the *)
(* codec touches: groups, their attributes (type, shape, entries) and the  *)
(* names of their datasets.                                                *)
(*                                                                         *)
(* A text is a sequence of one-character strings.  NUL stands for the      *)
(* character U+0000, which a Rust String may hold and which                *)
(* VarLenUnicode::from_str rejects.                                        *)
(***************************************************************************)
EXTENDS Integers, Sequences, FiniteSets, TLC

VARIABLES file, setRec, setRes, setStep, setFresh, sets, decoded, ops

vars == <<file, setRec, setRes, setStep, setFresh, sets, decoded, ops>>

(***************************************************************************)
(* Bounds of the model.                                                    *)
(***************************************************************************)
\* number of modifying calls (add_group, set_meta_data,
\* remove_meta_data_attribute, add_dataset) in one behaviour
MaxOps == 2
\* largest number of annotations (md entries) in a record passed to set_meta_data
MaxMd == 2
\* largest number of labels in ds_description of a record
MaxDs == 2
\* largest number of keys in the descriptors of the two-encodings comparison
MaxDualKeys == 3

(***************************************************************************)
(* Texts.                                                                  *)
(***************************************************************************)
NUL == "NUL"
Sep == <<",", " ">>
Slash == <<"/">>
DigitChars == <<"0", "1", "2", "3", "4", "5", "6", "7", "8", "9">>

IsDigit(c) == \E d \in 1..10 : DigitChars[d] = c
DigitVal(c) == (CHOOSE d \in 1..10 : DigitChars[d] = c) - 1

HasNul(t) == \E i \in 1..Len(t) : t[i] = NUL

IsPrefix(p, t) == Len(p) <= Len(t) /\ SubSeq(t, 1, Len(p)) = p

Contains(t, p) == \E i \in 1..(Len(t) - Len(p) + 1) : SubSeq(t, i, i + Len(p) - 1) = p

\* str::split(sep): the pieces between the non-overlapping matches of sep, left to right;
\* a text without a match (the empty text too) is one piece
RECURSIVE SplitFrom(_, _, _)
SplitFrom(t, sep, cur) ==
    IF t = <<>> THEN <<cur>>
    ELSE IF IsPrefix(sep, t)
         THEN <<cur>> \o SplitFrom(SubSeq(t, Len(sep) + 1, Len(t)), sep, <<>>)
         ELSE SplitFrom(Tail(t), sep, Append(cur, Head(t)))

Split(t, sep) == SplitFrom(t, sep, <<>>)

\* [String]::join(sep)
RECURSIVE Join(_, _)
Join(ts, sep) ==
    IF ts = <<>> THEN <<>>
    ELSE IF Len(ts) = 1 THEN ts[1]
    ELSE ts[1] \o sep \o Join(Tail(ts), sep)

\* str::trim(): leading and trailing whitespace removed
RECURSIVE TrimStart(_)
TrimStart(t) == IF t # <<>> /\ Head(t) = " " THEN TrimStart(Tail(t)) ELSE t

RECURSIVE TrimEnd(_)
TrimEnd(t) ==
    IF t # <<>> /\ t[Len(t)] = " " THEN TrimEnd(SubSeq(t, 1, Len(t) - 1)) ELSE t

Trim(t) == TrimEnd(TrimStart(t))

(***************************************************************************)
(* 32-bit floats.  A float is <<m, e>>, the value m / 10^e with m not a    *)
(* multiple of 10 unless e = 0.  The literals of the model are unsigned    *)
(* decimals of at most 7 significant digits, which an f32 holds and        *)
(* prints back shortest-form; signs, exponents, inf and nan use characters *)
(* outside the alphabet of the model.                                      *)
(***************************************************************************)
RECURSIVE Pow10(_)
Pow10(n) == IF n = 0 THEN 1 ELSE 10 * Pow10(n - 1)

\* str::parse::<f32>() succeeds
IsFloatLit(t) ==
    /\ t # <<>>
    /\ \A i \in 1..Len(t) : IsDigit(t[i]) \/ t[i] = "."
    /\ Cardinality({i \in 1..Len(t) : t[i] = "."}) <= 1
    /\ \E i \in 1..Len(t) : IsDigit(t[i])

RECURSIVE DigitsVal(_, _)
DigitsVal(t, acc) ==
    IF t = <<>> THEN acc ELSE DigitsVal(Tail(t), 10 * acc + DigitVal(Head(t)))

RECURSIVE Normal(_, _)
Normal(m, e) == IF e > 0 /\ m % 10 = 0 THEN Normal(m \div 10, e - 1) ELSE <<m, e>>

\* the value of str::parse::<f32>() on a literal
ParseF32(t) ==
    LET dots == {i \in 1..Len(t) : t[i] = "."}
        dot == IF dots = {} THEN Len(t) + 1 ELSE CHOOSE i \in dots : TRUE
        ip == SubSeq(t, 1, dot - 1)
        fp == SubSeq(t, dot + 1, Len(t))
    IN Normal(DigitsVal(ip \o fp, 0), Len(fp))

RECURSIVE NatText(_)
NatText(n) ==
    IF n < 10 THEN <<DigitChars[n + 1]>>
    ELSE Append(NatText(n \div 10), DigitChars[(n % 10) + 1])

RECURSIVE PadText(_, _)
PadText(t, w) == IF Len(t) >= w THEN t ELSE PadText(<<"0">> \o t, w)

\* format!("{}", f32)
FormatF32(x) ==
    LET m == x[1]
        e == x[2]
    IN IF e = 0 THEN NatText(m)
       ELSE NatText(m \div Pow10(e)) \o <<".">> \o PadText(NatText(m % Pow10(e)), e)

(***************************************************************************)
(* The HDF5 file.  file maps the name of each group of the file to its     *)
(* attributes and the names of its datasets.  The attributes of a group    *)
(* are a function from the names of the attributes it has to               *)
(*   [ty, scalar, written, vals]:                                          *)
(* ty is "str" (variable-length UTF-8 text) or "f32"; scalar tells a       *)
(* scalar dataspace from a one-dimensional one; vals are the entries;      *)
(* written is FALSE from the creation of the attribute to its first write. *)
(* An attribute name is <<name, 0>>, or <<"md", i>> for md{i}.             *)
(***************************************************************************)
Name(s) == <<s, 0>>
MdName(i) == <<"md", i>>

NoAttrs == [n \in {} |-> n]

HasAttr(as, n) == n \in DOMAIN as

Put(as, n, a) == [m \in DOMAIN as \cup {n} |-> IF m = n THEN a ELSE as[m]]

\* number of entries of the dataspace of an attribute
Size(a) == IF a.scalar THEN 1 ELSE Len(a.vals)

\* group.new_attr::<VarLenUnicode>().create(name)
CreateStr(as, n) ==
    Put(as, n, [ty |-> "str", scalar |-> TRUE, written |-> FALSE, vals |-> <<>>])

\* Attribute::write_scalar(&value) succeeds: scalar dataspace, and a conversion
\* path from the type of the value to the type of the attribute
CanWriteScalar(a, ty) == a.scalar /\ a.ty = ty

\* Attribute::write_raw(&[value]) succeeds: one entry, and a conversion path
CanWriteRaw(a, ty) == Size(a) = 1 /\ a.ty = ty

Written(as, n, v) == Put(as, n, [as[n] EXCEPT !.written = TRUE, !.vals = <<v>>])

StepOk(as) == [attrs |-> as, res |-> "Ok"]
StepErr(as) == [attrs |-> as, res |-> "Err"]
StepPanic(as) == [attrs |-> as, res |-> "Panic"]

\* one scalar text field: dotthz.rs 196-203 and its five repetitions
WriteTextField(as, n, t) ==
    IF HasAttr(as, n)
    THEN IF HasNul(t) \/ ~CanWriteScalar(as[n], "str")
         THEN StepErr(as)
         ELSE StepOk(Written(as, n, t))
    ELSE LET c == CreateStr(as, n)
         IN IF HasNul(t) THEN StepErr(c) ELSE StepOk(Written(c, n, t))

\* the composite of the identity quartet
UserEntry(rec) ==
    rec.orcid \o Slash \o rec.user \o Slash \o rec.email \o Slash \o rec.institution

\* the "user" attribute: the entry is encoded, with unwrap(), before the attribute
\* is looked up
WriteUser(as, n, t) ==
    IF HasNul(t) THEN StepPanic(as)
    ELSE IF HasAttr(as, n)
         THEN IF CanWriteScalar(as[n], "str")
              THEN StepOk(Written(as, n, t))
              ELSE StepErr(as)
         ELSE StepOk(Written(CreateStr(as, n), n, t))

\* mdDescription and dsDescription: one joined entry, written with write_raw
WriteDescriptor(as, n, t) ==
    IF HasAttr(as, n)
    THEN IF HasNul(t) \/ ~CanWriteRaw(as[n], "str")
         THEN StepErr(as)
         ELSE StepOk(Written(as, n, t))
    ELSE LET c == CreateStr(as, n)
         IN IF HasNul(t) THEN StepErr(c) ELSE StepOk(Written(c, n, t))

\* md{i}: an attribute that exists takes the parsed float when the value parses,
\* and the text otherwise; an attribute that does not exist is created as text
WriteMd(as, n, v) ==
    IF HasAttr(as, n)
    THEN IF IsFloatLit(v)
         THEN IF CanWriteScalar(as[n], "f32")
              THEN StepOk(Written(as, n, ParseF32(v)))
              ELSE StepErr(as)
         ELSE IF HasNul(v) \/ ~CanWriteScalar(as[n], "str")
              THEN StepErr(as)
              ELSE StepOk(Written(as, n, v))
    ELSE LET c == CreateStr(as, n)
         IN IF HasNul(v) THEN StepErr(c) ELSE StepOk(Written(c, n, v))

Keys(md) == [i \in 1..Len(md) |-> md[i][1]]

\* Steps with "time" written before "thzVer"
StepsTimeFirst(rec) ==
    << [kind |-> "text", name |-> Name("description"), text |-> rec.description],
       [kind |-> "text", name |-> Name("date"), text |-> rec.date],
       [kind |-> "text", name |-> Name("instrument"), text |-> rec.instrument],
       [kind |-> "text", name |-> Name("mode"), text |-> rec.mode],
       [kind |-> "text", name |-> Name("time"), text |-> rec.time],
       [kind |-> "text", name |-> Name("thzVer"), text |-> rec.version],
       [kind |-> "user", name |-> Name("user"), text |-> UserEntry(rec)],
       [kind |-> "descr", name |-> Name("mdDescription"),
        text |-> Join(Keys(rec.md), Sep)] >>
    \o [i \in 1..Len(rec.md) |->
           [kind |-> "md", name |-> MdName(i), text |-> rec.md[i][2]]]
    \o << [kind |-> "descr", name |-> Name("dsDescription"),
           text |-> Join(rec.ds_description, Sep)] >>

\* the writes of set_meta_data, in the order of the code
Steps(rec) ==
    << [kind |-> "text", name |-> Name("description"), text |-> rec.description],
       [kind |-> "text", name |-> Name("date"), text |-> rec.date],
       [kind |-> "text", name |-> Name("instrument"), text |-> rec.instrument],
       [kind |-> "text", name |-> Name("mode"), text |-> rec.mode],
       [kind |-> "text", name |-> Name("thzVer"), text |-> rec.version],
       [kind |-> "text", name |-> Name("time"), text |-> rec.time],
       [kind |-> "user", name |-> Name("user"), text |-> UserEntry(rec)],
       [kind |-> "descr", name |-> Name("mdDescription"),
        text |-> Join(Keys(rec.md), Sep)] >>
    \o [i \in 1..Len(rec.md) |->
           [kind |-> "md", name |-> MdName(i), text |-> rec.md[i][2]]]
    \o << [kind |-> "descr", name |-> Name("dsDescription"),
           text |-> Join(rec.ds_description, Sep)] >>

DoStep(as, st) ==
    CASE st.kind = "text" -> WriteTextField(as, st.name, st.text)
      [] st.kind = "user" -> WriteUser(as, st.name, st.text)
      [] st.kind = "descr" -> WriteDescriptor(as, st.name, st.text)
      [] st.kind = "md" -> WriteMd(as, st.name, st.text)

\* the steps from the i-th on; the first step that fails ends the call (the ? operator,
\* or the panic of unwrap), and what was written stays written
RECURSIVE RunSteps(_, _, _)
RunSteps(as, steps, i) ==
    IF i > Len(steps) THEN [attrs |-> as, res |-> "Ok", step |-> 0]
    ELSE LET r == DoStep(as, steps[i])
         IN IF r.res = "Ok" THEN RunSteps(r.attrs, steps, i + 1)
            ELSE [attrs |-> r.attrs, res |-> r.res, step |-> i]

\* DotthzFile::set_meta_data(group, meta_data) on a group with attributes as
set_meta_data(as, rec) == RunSteps(as, Steps(rec), 1)

(***************************************************************************)
(* get_meta_data.  Reading an attribute that was created and never written *)
(* yields null entries; converting a null VarLenUnicode to a String        *)
(* dereferences the null pointer.  The outcome of that is left open        *)
(* between the two a build can show: the entry reads as the empty text     *)
(* (nullRead = "empty") or the process dies (nullRead = "crash").          *)
(***************************************************************************)
\* attr(name).and_then(|a| a.read_raw::<VarLenUnicode>()) is Ok
ReadsText(as, n) == HasAttr(as, n) /\ as[n].ty = "str"

\* attr(name).and_then(|a| a.read_raw::<f32>()) is Ok
ReadsF32(as, n) == HasAttr(as, n) /\ as[n].ty = "f32"

\* the entries read_raw returns, null entries taken as empty texts
Entries(a) == IF a.written THEN a.vals ELSE [i \in 1..Size(a) |-> <<>>]

\* ReadFirstText with the entry trimmed, as the parts of "user" are
ReadFirstTextTrimmed(as, n) ==
    IF ReadsText(as, n) /\ Len(Entries(as[n])) > 0 THEN Trim(Entries(as[n])[1]) ELSE <<>>

\* a scalar text field: the first entry of the attribute, or the default
ReadFirstText(as, n) ==
    IF ReadsText(as, n) /\ Len(Entries(as[n])) > 0 THEN Entries(as[n])[1] ELSE <<>>

\* every entry split on ", ", the pieces in order (flat_map)
RECURSIVE FlatSplit(_)
FlatSplit(es) ==
    IF es = <<>> THEN <<>> ELSE Split(Head(es), Sep) \o FlatSplit(Tail(es))

\* DecodeDs with the entries taken as they are
DecodeDsUnsplit(as) ==
    IF ReadsText(as, Name("dsDescription"))
    THEN Entries(as[Name("dsDescription")])
    ELSE <<>>

DecodeDs(as) ==
    IF ReadsText(as, Name("dsDescription"))
    THEN FlatSplit(Entries(as[Name("dsDescription")]))
    ELSE <<>>

\* Unpack without the split of a single entry
UnpackUnsplit(es) == es

\* one entry is split on ", "; any other number of entries is taken as it is
Unpack(es) == IF Len(es) = 1 THEN Split(es[1], Sep) ELSE es

\* IndexMap::insert: the value of a key already present is replaced in place
Insert(md, k, v) ==
    IF \E j \in 1..Len(md) : md[j][1] = k
    THEN [j \in 1..Len(md) |-> IF md[j][1] = k THEN <<k, v>> ELSE md[j]]
    ELSE Append(md, <<k, v>>)

\* ReadMd with the attributes numbered from 0
ReadMdZeroBased(as, md, k, i) ==
    LET n == MdName(i - 1)
        m1 == IF ReadsF32(as, n) /\ Len(as[n].vals) > 0
              THEN Insert(md, k, FormatF32(as[n].vals[1]))
              ELSE md
    IN IF ReadsText(as, n) /\ Len(Entries(as[n])) > 0
       THEN Insert(m1, k, Entries(as[n])[1])
       ELSE m1

\* the two reads of md{i} for the key at position i
ReadMd(as, md, k, i) ==
    LET n == MdName(i)
        m1 == IF ReadsF32(as, n) /\ Len(as[n].vals) > 0
              THEN Insert(md, k, FormatF32(as[n].vals[1]))
              ELSE md
    IN IF ReadsText(as, n) /\ Len(Entries(as[n])) > 0
       THEN Insert(m1, k, Entries(as[n])[1])
       ELSE m1

\* ReadMds with the attributes numbered by the annotations read so far
RECURSIVE ReadMdsCompacting(_, _, _, _)
ReadMdsCompacting(as, ks, i, md) ==
    IF i > Len(ks) THEN md
    ELSE ReadMdsCompacting(as, ks, i + 1, ReadMd(as, md, ks[i], Len(md) + 1))

RECURSIVE ReadMds(_, _, _, _)
ReadMds(as, ks, i, md) ==
    IF i > Len(ks) THEN md ELSE ReadMds(as, ks, i + 1, ReadMd(as, md, ks[i], i))

\* the keys get_meta_data recovers from mdDescription
MdKeys(as) ==
    IF ReadsText(as, Name("mdDescription"))
    THEN Unpack(Entries(as[Name("mdDescription")]))
    ELSE <<>>

DecodeMd(as) == ReadMds(as, MdKeys(as), 1, <<>>)

\* UserPart without the trim
UserPartUntrimmed(as, i) ==
    LET n == Name("user")
    IN IF ReadsText(as, n) /\ Len(Entries(as[n])) > 0
       THEN LET parts == Split(Entries(as[n])[1], Slash)
            IN IF i <= Len(parts) THEN parts[i] ELSE <<>>
       ELSE <<>>

\* the part of the "user" attribute at position i, trimmed; the default without it
UserPart(as, i) ==
    LET n == Name("user")
    IN IF ReadsText(as, n) /\ Len(Entries(as[n])) > 0
       THEN LET parts == Split(Entries(as[n])[1], Slash)
            IN IF i <= Len(parts) THEN Trim(parts[i]) ELSE <<>>
       ELSE <<>>

\* the attributes get_meta_data reads as text
TextReads(as) ==
    { Name("instrument"), Name("dsDescription"), Name("mdDescription"), Name("mode"),
      Name("thzVer"), Name("description"), Name("time"), Name("date"), Name("user") }
    \cup { MdName(i) : i \in 1..Len(MdKeys(as)) }

\* get_meta_data converts a null entry to a String
ReadsNull(as) == \E n \in TextReads(as) : ReadsText(as, n) /\ ~as[n].written

Default ==
    [status |-> "None", user |-> <<>>, email |-> <<>>, orcid |-> <<>>,
     institution |-> <<>>, description |-> <<>>, md |-> <<>>, ds_description |-> <<>>,
     version |-> <<>>, mode |-> <<>>, instrument |-> <<>>, time |-> <<>>, date |-> <<>>]

DecodeGroup(as) ==
    [status |-> "Ok",
     instrument |-> ReadFirstText(as, Name("instrument")),
     ds_description |-> DecodeDs(as),
     md |-> DecodeMd(as),
     mode |-> ReadFirstText(as, Name("mode")),
     version |-> ReadFirstText(as, Name("thzVer")),
     description |-> ReadFirstText(as, Name("description")),
     time |-> ReadFirstText(as, Name("time")),
     date |-> ReadFirstText(as, Name("date")),
     orcid |-> UserPart(as, 1),
     user |-> UserPart(as, 2),
     email |-> UserPart(as, 3),
     institution |-> UserPart(as, 4)]

\* GroupOpens with the read of "instrument" propagated as an error too
GroupOpensWithInstrument(f, g) ==
    g \in DOMAIN f /\ HasAttr(f[g].attrs, Name("instrument"))

\* self.file.group(group_name)? : the one error get_meta_data returns
GroupOpens(f, g) == g \in DOMAIN f

\* DotthzFile::get_meta_data(group_name) on file f
get_meta_data(f, g, nullRead) ==
    IF ~GroupOpens(f, g) THEN [Default EXCEPT !.status = "Err"]
    ELSE IF ReadsNull(f[g].attrs) /\ nullRead = "crash"
         THEN [Default EXCEPT !.status = "Crash"]
         ELSE DecodeGroup(f[g].attrs)

(***************************************************************************)
(* The inputs of the model.                                                *)
(***************************************************************************)
GroupNames == {"g1", "g2"}
\* the group the modifying calls are made on
WriteGroups == {"g1"}
DatasetNames == {"ds1"}

Base ==
    [user |-> <<"u">>, email |-> <<"e">>, orcid |-> <<"o">>, institution |-> <<"i">>,
     description |-> <<"d">>, md |-> <<>>, ds_description |-> <<>>,
     version |-> <<"v">>, mode |-> <<"m">>, instrument |-> <<"n">>,
     time |-> <<"t">>, date |-> <<"y">>]

ScalarFields == {"description", "date", "instrument", "mode", "version", "time"}
QuartetFields == {"orcid", "user", "email", "institution"}

\* a text with blanks around it, and a text no text attribute can hold
FieldTexts == { <<" ", "x", " ">>, <<"x", NUL>> }
QuartetTexts == { <<" ", "x">>, <<"x", "/", "y">>, <<NUL>> }

AllEmpty ==
    [user |-> <<>>, email |-> <<>>, orcid |-> <<>>, institution |-> <<>>,
     description |-> <<>>, md |-> <<>>, ds_description |-> <<>>,
     version |-> <<>>, mode |-> <<>>, instrument |-> <<>>, time |-> <<>>, date |-> <<>>]

\* annotations: a plain one, a float literal under the empty key, a key that holds
\* the separator, a value that no text attribute can hold
MdPairs ==
    << <<<<"k">>, <<"w">>>>, <<<<>>, <<"1", ".", "5", "0">>>>,
       <<<<"k", ",", " ", "j">>, <<"w">>>>, <<<<"q">>, <<NUL>>>> >>

DsTexts == << <<"s">>, <<>>, <<"s", ",", " ", "r">> >>

\* the subsequences of ps of at most n entries, in the order of ps
RECURSIVE SubSeqsUpTo(_, _)
SubSeqsUpTo(ps, n) ==
    IF ps = <<>> \/ n = 0 THEN { <<>> }
    ELSE SubSeqsUpTo(Tail(ps), n)
         \cup { <<Head(ps)>> \o r : r \in SubSeqsUpTo(Tail(ps), n - 1) }

\* the keys of MdPairs differ: an IndexMap holds a key once
MdSeqs == SubSeqsUpTo(MdPairs, MaxMd)

DsSeqs == SubSeqsUpTo(DsTexts, MaxDs)

Records ==
    { Base, AllEmpty }
    \cup { [Base EXCEPT ![f] = t] : f \in ScalarFields, t \in FieldTexts }
    \cup { [Base EXCEPT ![f] = t] : f \in QuartetFields, t \in QuartetTexts }
    \cup { [Base EXCEPT !.md = md] : md \in MdSeqs }
    \cup { [Base EXCEPT !.ds_description = ds] : ds \in DsSeqs }

StrScalar(t) == [ty |-> "str", scalar |-> TRUE, written |-> TRUE, vals |-> <<t>>]
StrArray(ts) == [ty |-> "str", scalar |-> FALSE, written |-> TRUE, vals |-> ts]
F32Scalar(x) == [ty |-> "f32", scalar |-> TRUE, written |-> TRUE, vals |-> <<x>>]

\* a group of a file of the older convention: one descriptor entry per key,
\* numeric annotations, a short identity composite, no instrument
LegacyMulti ==
    (Name("description") :> StrScalar(<<"d">>))
    @@ (Name("mode") :> StrScalar(<<"m">>))
    @@ (Name("user") :> StrScalar(<<"o", "/", " ", "u">>))
    @@ (Name("mdDescription") :> StrArray(<< <<"k">>, <<"j">> >>))
    @@ (MdName(1) :> F32Scalar(ParseF32(<<"0", ".", "5", "2">>)))
    @@ (MdName(2) :> StrScalar(<<"w">>))
    @@ (Name("dsDescription") :> StrArray(<< <<"s", ",", " ", "r">>, <<"s">> >>))

\* a group with joined descriptors and numeric annotations
LegacyJoined ==
    (Name("description") :> StrScalar(<<"d">>))
    @@ (Name("thzVer") :> StrScalar(<<"v">>))
    @@ (Name("mdDescription") :> StrScalar(<<"k", ",", " ", "j">>))
    @@ (MdName(1) :> F32Scalar(ParseF32(<<"7">>)))
    @@ (MdName(2) :> F32Scalar(ParseF32(<<"1", ".", "5">>)))
    @@ (Name("dsDescription") :> StrScalar(<<"s", ",", " ", "r">>))

NoGroups == [g \in {} |-> g]

InitialFiles ==
    { NoGroups,
      [g \in WriteGroups |-> [attrs |-> LegacyMulti, datasets |-> {"ds1"}]],
      [g \in WriteGroups |-> [attrs |-> LegacyJoined, datasets |-> {}]] }

RemovableNames ==
    { Name(s) : s \in {"description", "date", "instrument", "mode", "thzVer", "time",
                       "user", "mdDescription", "dsDescription"} }
    \cup { MdName(i) : i \in 1..MaxMd }

(***************************************************************************)
(* The state machine.  setRec, setRes, setStep and setFresh describe the   *)
(* last set_meta_data call on the group: its record, its outcome ("None"   *)
(* before any call and after an attribute was removed), the step it failed *)
(* at (0 when it did not fail) and whether the group had just been         *)
(* created; sets counts the calls.  decoded[g] is what the last            *)
(* get_meta_data(g) returned, with status "None" once the group was        *)
(* modified since.  ops counts the modifying calls.                        *)
(***************************************************************************)
Init ==
    /\ file \in InitialFiles
    /\ setRec = Base
    /\ setRes = "None"
    /\ setStep = 0
    /\ setFresh = FALSE
    /\ sets = 0
    /\ decoded = [g \in GroupNames |-> Default]
    /\ ops = 0

Undecode(g) == [decoded EXCEPT ![g] = Default]

\* add_group: create_group, then set_meta_data on the new group; an error, and
\* no change, when the group exists
AddGroup(g, rec) ==
    /\ ops < MaxOps
    /\ ops' = ops + 1
    /\ IF g \in DOMAIN file
       THEN UNCHANGED <<file, setRec, setRes, setStep, setFresh, sets, decoded>>
       ELSE LET r == set_meta_data(NoAttrs, rec)
            IN /\ file' = [h \in DOMAIN file \cup {g} |->
                             IF h = g THEN [attrs |-> r.attrs, datasets |-> {}]
                             ELSE file[h]]
               /\ setRec' = rec
               /\ setRes' = r.res
               /\ setStep' = r.step
               /\ setFresh' = TRUE
               /\ sets' = sets + 1
               /\ decoded' = Undecode(g)

\* set_meta_data on the handle of a group of the file
SetMetaData(g, rec) ==
    /\ ops < MaxOps
    /\ g \in DOMAIN file
    /\ ops' = ops + 1
    /\ LET r == set_meta_data(file[g].attrs, rec)
       IN /\ file' = [file EXCEPT ![g].attrs = r.attrs]
          /\ setRec' = rec
          /\ setRes' = r.res
          /\ setStep' = r.step
          /\ setFresh' = FALSE
          /\ sets' = sets + 1
          /\ decoded' = Undecode(g)

\* remove_meta_data_attribute: an error, and no change, without the group or
\* without the attribute
RemoveMetaDataAttribute(g, n) ==
    /\ ops < MaxOps
    /\ ops' = ops + 1
    /\ IF g \in DOMAIN file /\ HasAttr(file[g].attrs, n)
       THEN /\ file' = [file EXCEPT ![g].attrs =
                           [m \in DOMAIN file[g].attrs \ {n} |-> file[g].attrs[m]]]
            /\ setRes' = "None"
            /\ decoded' = Undecode(g)
            /\ UNCHANGED <<setRec, setStep, setFresh, sets>>
       ELSE UNCHANGED <<file, setRec, setRes, setStep, setFresh, sets, decoded>>

\* add_dataset: a new dataset of the group; an error, and no change, without the
\* group or with the dataset there already
AddDataset(g, d) ==
    /\ ops < MaxOps
    /\ ops' = ops + 1
    /\ IF g \in DOMAIN file /\ d \notin file[g].datasets
       THEN file' = [file EXCEPT ![g].datasets = @ \cup {d}]
       ELSE UNCHANGED file
    /\ UNCHANGED <<setRec, setRes, setStep, setFresh, sets, decoded>>

GetMetaData(g) ==
    /\ \E nullRead \in {"empty", "crash"} :
          decoded' = [decoded EXCEPT ![g] = get_meta_data(file, g, nullRead)]
    /\ UNCHANGED <<file, setRec, setRes, setStep, setFresh, sets, ops>>

Next ==
    \/ \E g \in WriteGroups, rec \in Records : AddGroup(g, rec)
    \/ \E g \in WriteGroups, rec \in Records : SetMetaData(g, rec)
    \/ \E g \in WriteGroups, n \in RemovableNames : RemoveMetaDataAttribute(g, n)
    \/ \E g \in WriteGroups, d \in DatasetNames : AddDataset(g, d)
    \/ \E g \in WriteGroups : GetMetaData(g)

Spec == Init /\ [][Next]_vars

(***************************************************************************)
(* The two encodings of a descriptor.  An initial file holds two groups    *)
(* with the same md attributes: g1 with the keys joined in one entry of    *)
(* mdDescription, g2 with one entry for each key.                          *)
(***************************************************************************)
DualKeyTexts == { <<"k">>, <<"j", ",">>, <<"k", ",", " ", "j">> }

\* what md{i} can be: absent (size 0), a text, a number
DualMdAttrs ==
    { StrArray(<<>>), StrScalar(<<"w">>), F32Scalar(ParseF32(<<"0", ".", "5", "2">>)) }

DualAttrs(descriptor, ms) ==
    [n \in {Name("mdDescription")} \cup { MdName(i) : i \in { j \in 1..Len(ms) : Size(ms[j]) > 0 } }
       |-> IF n = Name("mdDescription") THEN descriptor ELSE ms[n[2]]]

InitDual ==
    /\ \E k \in 2..MaxDualKeys :
         \E ks \in [1..k -> DualKeyTexts], ms \in [1..k -> DualMdAttrs] :
            file = [g \in GroupNames |->
                      [attrs |-> IF g = "g1"
                                 THEN DualAttrs(StrScalar(Join(ks, Sep)), ms)
                                 ELSE DualAttrs(StrArray(ks), ms),
                       datasets |-> {}]]
    /\ setRec = Base
    /\ setRes = "None"
    /\ setStep = 0
    /\ setFresh = FALSE
    /\ sets = 0
    /\ decoded = [g \in GroupNames |-> Default]
    /\ ops = 0

NextDual == \E g \in GroupNames : GetMetaData(g)

SpecDual == InitDual /\ [][NextDual]_vars

(***************************************************************************)
(* The claims.                                                             *)
(***************************************************************************)
G == "g1"

Attrs == file[G].attrs

\* a get_meta_data that returned a record, after a set_meta_data that returned Ok,
\* with no attribute removed in between
AfterSet == setRes = "Ok" /\ decoded[G].status = "Ok"

NoSep(ts) == \A i \in 1..Len(ts) : ~Contains(ts[i], Sep)

\* C1: after set_meta_data and then get_meta_data, description, date, instrument,
\* mode, time and version are each exactly the text of the encoded record, the
\* empty text included.
ScalarFieldsRoundTrip ==
    AfterSet => \A f \in ScalarFields : decoded[G][f] = setRec[f]

ScalarFieldsRoundTripWitness ==
    /\ AfterSet
    /\ setRec.instrument = <<>>
    /\ setRec.description = <<>>
    /\ decoded[G].instrument = <<>>

\* C2 as stated: for a quartet without '/', the "user" attribute holds
\* orcid/user/email/institution and get_meta_data returns the four subfields
\* character for character.
UserRoundTripExact ==
    (AfterSet /\ \A f \in QuartetFields : ~Contains(setRec[f], Slash)) =>
        /\ Attrs[Name("user")].vals =
             << setRec.orcid \o <<"/">> \o setRec.user \o <<"/">> \o setRec.email
                \o <<"/">> \o setRec.institution >>
        /\ \A f \in QuartetFields : decoded[G][f] = setRec[f]

\* C2 amended: for a quartet without '/', the "user" attribute holds
\* orcid/user/email/institution and get_meta_data returns each subfield with its
\* leading and trailing whitespace removed.
UserRoundTripTrimmed ==
    (AfterSet /\ \A f \in QuartetFields : ~Contains(setRec[f], Slash)) =>
        /\ Attrs[Name("user")].vals =
             << setRec.orcid \o <<"/">> \o setRec.user \o <<"/">> \o setRec.email
                \o <<"/">> \o setRec.institution >>
        /\ \A f \in QuartetFields : decoded[G][f] = Trim(setRec[f])

UserRoundTripTrimmedWitness ==
    /\ AfterSet
    /\ \A f \in QuartetFields : ~Contains(setRec[f], Slash)
    /\ setRec.user = <<" ", "x">>
    /\ decoded[G].user = <<"x">>

\* the text get_meta_data makes of an attribute md{i}
AttrText(a) == IF a.ty = "f32" THEN FormatF32(a.vals[1]) ELSE a.vals[1]

\* C3: for keys without ", ", set_meta_data on a newly created group and then
\* get_meta_data return the keys of the record in their order, the i-th with the
\* value read from md{i}, and a value that is no float literal unchanged.
AnnotationsRoundTrip ==
    (AfterSet /\ setFresh /\ NoSep(Keys(setRec.md))) =>
        /\ Keys(decoded[G].md) = Keys(setRec.md)
        /\ \A i \in 1..Len(setRec.md) :
              /\ HasAttr(Attrs, MdName(i))
              /\ decoded[G].md[i][2] = AttrText(Attrs[MdName(i)])
              /\ ~IsFloatLit(setRec.md[i][2]) => decoded[G].md[i][2] = setRec.md[i][2]

AnnotationsRoundTripWitness ==
    /\ AfterSet
    /\ setFresh
    /\ NoSep(Keys(setRec.md))
    /\ Len(setRec.md) = 2
    /\ Len(decoded[G].md) = 2

\* C4 as stated: after set_meta_data, md{i} is a 32-bit float attribute when the
\* i-th value parses as a float literal and a text attribute otherwise, whether
\* or not md{i} was there before the call.
AnnotationsStoredByType ==
    setRes = "Ok" =>
        \A i \in 1..Len(setRec.md) :
            /\ HasAttr(Attrs, MdName(i))
            /\ Attrs[MdName(i)].ty = IF IsFloatLit(setRec.md[i][2]) THEN "f32" ELSE "str"

\* the two groups of a file hold the two encodings of one list of at least two
\* keys without ", ", and the same md attributes
DualPair ==
    /\ DOMAIN file = GroupNames
    /\ LET a1 == file["g1"].attrs
           a2 == file["g2"].attrs
           d == Name("mdDescription")
       IN /\ HasAttr(a1, d) /\ HasAttr(a2, d)
          /\ ~a2[d].scalar
          /\ Len(a2[d].vals) >= 2
          /\ NoSep(a2[d].vals)
          /\ a1[d] = StrScalar(Join(a2[d].vals, Sep))
          /\ DOMAIN a1 = DOMAIN a2
          /\ \A n \in DOMAIN a1 \ {d} : a1[n] = a2[n]

\* C5: with the same md1..mdn, a group whose mdDescription is one joined entry
\* and a group whose mdDescription is the n separate entries decode to equal
\* annotations, under the same ordered keys.
DescriptorEncodingsAgree ==
    (DualPair /\ decoded["g1"].status = "Ok" /\ decoded["g2"].status = "Ok") =>
        /\ decoded["g1"].md = decoded["g2"].md
        /\ MdKeys(file["g1"].attrs) = file["g2"].attrs[Name("mdDescription")].vals

DescriptorEncodingsAgreeWitness ==
    /\ DualPair
    /\ decoded["g1"].status = "Ok"
    /\ decoded["g2"].status = "Ok"
    /\ Len(decoded["g2"].md) >= 2

\* C6 as stated: dsDescription is decoded by the rule of mdDescription: one entry
\* is split on ", ", any other number of entries is returned unchanged.
DsDescriptionUnpacked ==
    (decoded[G].status = "Ok" /\ ReadsText(Attrs, Name("dsDescription"))) =>
        LET es == Entries(Attrs[Name("dsDescription")])
        IN decoded[G].ds_description = IF Len(es) = 1 THEN Split(es[1], Sep) ELSE es

\* C7 as stated: for labels without ", ", the empty sequence included,
\* set_meta_data and then get_meta_data return the dataset_descriptions of the
\* record, whatever datasets the group has.
DsRoundTripExact ==
    (AfterSet /\ NoSep(setRec.ds_description)) =>
        decoded[G].ds_description = setRec.ds_description

\* C7 amended: for labels without ", ", set_meta_data and then get_meta_data
\* return the dataset_descriptions of the record when it is not empty, and the
\* one label "" when it is empty, whatever datasets the group has.
DsRoundTrip ==
    (AfterSet /\ NoSep(setRec.ds_description)) =>
        decoded[G].ds_description =
            IF setRec.ds_description = <<>> THEN << <<>> >> ELSE setRec.ds_description

DsRoundTripWitness ==
    /\ AfterSet
    /\ NoSep(setRec.ds_description)
    /\ Len(setRec.ds_description) = 2
    /\ file[G].datasets = {}
    /\ Len(decoded[G].ds_description) = 2

\* the attribute of a scalar field
AttrOf(f) == IF f = "version" THEN Name("thzVer") ELSE Name(f)

Unrepresentable(rec) ==
    \/ \E f \in ScalarFields \cup QuartetFields : HasNul(rec[f])
    \/ \E i \in 1..Len(rec.md) : HasNul(rec.md[i][1]) \/ HasNul(rec.md[i][2])
    \/ \E i \in 1..Len(rec.ds_description) : HasNul(rec.ds_description[i])

\* C9 as stated: with a text that cannot be stored in any field of the record,
\* orcid, user, email and institution included, set_meta_data returns an error:
\* it does not panic and does not return Ok.
EncodingFailureReturnsErr ==
    (setRes # "None" /\ Unrepresentable(setRec)) => setRes = "Err"

\* the order C10 gives to the writes of set_meta_data
WriteOrder(rec) ==
    << Name("description"), Name("date"), Name("instrument"), Name("mode"),
       Name("thzVer"), Name("time"), Name("user"), Name("mdDescription") >>
    \o [i \in 1..Len(rec.md) |-> MdName(i)]
    \o << Name("dsDescription") >>

\* the text the record gives to an attribute
NewText(rec, n) ==
    CASE n = Name("description") -> rec.description
      [] n = Name("date") -> rec.date
      [] n = Name("instrument") -> rec.instrument
      [] n = Name("mode") -> rec.mode
      [] n = Name("thzVer") -> rec.version
      [] n = Name("time") -> rec.time
      [] n = Name("user") ->
           rec.orcid \o <<"/">> \o rec.user \o <<"/">> \o rec.email
           \o <<"/">> \o rec.institution
      [] n = Name("mdDescription") -> Join(Keys(rec.md), Sep)
      [] n = Name("dsDescription") -> Join(rec.ds_description, Sep)
      [] OTHER -> rec.md[n[2]][2]

\* the attribute holds the value of the record, as text or as the number it parses to
HoldsNew(as, rec, n) ==
    /\ HasAttr(as, n)
    /\ as[n].written
    /\ IF as[n].ty = "f32"
       THEN IsFloatLit(NewText(rec, n)) /\ as[n].vals = <<ParseF32(NewText(rec, n))>>
       ELSE as[n].vals = <<NewText(rec, n)>>

SameAsBefore(pre, post, n) ==
    /\ HasAttr(pre, n) <=> HasAttr(post, n)
    /\ HasAttr(pre, n) => pre[n] = post[n]

\* C10: set_meta_data writes description, date, instrument, mode, thzVer, time,
\* user, mdDescription, md1..mdN, dsDescription in this order; when it fails at
\* step k the attributes of the steps before k hold the values of the new record
\* and the attributes of the steps after k, like every attribute outside the
\* steps, are as before the call.
WritesInOrderWithoutRollback ==
    [][ sets' = sets + 1 =>
          LET pre == IF G \in DOMAIN file THEN file[G].attrs ELSE NoAttrs
              post == file'[G].attrs
              order == WriteOrder(setRec')
              k == IF setRes' = "Ok" THEN Len(order) + 1 ELSE setStep'
          IN /\ k \in 1..(Len(order) + 1)
             /\ \A j \in 1..(k - 1) : HoldsNew(post, setRec', order[j])
             /\ \A j \in (k + 1)..Len(order) : SameAsBefore(pre, post, order[j])
             /\ \A n \in (DOMAIN pre \cup DOMAIN post) \ { order[j] : j \in 1..Len(order) } :
                   SameAsBefore(pre, post, n) ]_vars

\* a call that failed at "mode" after "description" was rewritten, with the
\* "time" of an earlier call still there
WritesInOrderWithoutRollbackWitness ==
    /\ setRes = "Err"
    /\ setStep = 4
    /\ ~setFresh
    /\ Attrs[Name("description")].vals = <<setRec.description>>
    /\ HasAttr(Attrs, Name("time"))
    /\ Attrs[Name("time")].vals # <<setRec.time>>

\* C11 as stated: after successful set_meta_data calls on one group,
\* get_meta_data returns the record it returns after a single set_meta_data of
\* the last record on a newly created group; no annotation of an earlier call
\* is left in it.
RewriteEqualsFreshWrite ==
    [][ ( /\ sets = 1 /\ setFresh /\ setRes = "Ok"
          /\ sets' = 2 /\ setRes' = "Ok" ) =>
            DecodeGroup(file'[G].attrs)
                = DecodeGroup(set_meta_data(NoAttrs, setRec').attrs) ]_vars

\* C12 as stated: a second set_meta_data with the record of the successful call
\* before it returns Ok and leaves every attribute as it was, float literals in
\* md{i} included.
SetMetaDataRepeatable ==
    [][ ( /\ setRes = "Ok" /\ G \in DOMAIN file
          /\ sets' = sets + 1 /\ setRec' = setRec ) =>
            /\ setRes' = "Ok"
            /\ file'[G].attrs = file[G].attrs ]_vars

\* md{i} can be read, as a number or as a text
MdReadable(as, i) ==
    \/ ReadsF32(as, MdName(i)) /\ Len(as[MdName(i)].vals) > 0
    \/ ReadsText(as, MdName(i)) /\ Len(Entries(as[MdName(i)])) > 0

\* the text for md{i}: the number formatted when it reads as a number, the text
\* read otherwise
MdText(as, i) ==
    IF ReadsF32(as, MdName(i)) /\ Len(as[MdName(i)].vals) > 0
    THEN FormatF32(as[MdName(i)].vals[1])
    ELSE Entries(as[MdName(i)])[1]

\* the value the annotations give to key k
Maps(md, k, v) == \E p \in 1..Len(md) : md[p] = <<k, v>>

\* C13 as stated: the key at position i maps to md{i}, formatted when it reads as
\* a number and as the text read otherwise; a key whose md{i} cannot be read is
\* left out, and no other key moves to another position.
EachKeyReadsItsPosition ==
    (decoded[G].status = "Ok" /\ ReadsText(Attrs, Name("mdDescription"))) =>
        LET ks == MdKeys(Attrs)
            md == decoded[G].md
        IN /\ \A i \in 1..Len(ks) :
                 MdReadable(Attrs, i) => Maps(md, ks[i], MdText(Attrs, i))
           /\ \A p \in 1..Len(md) :
                 \E i \in 1..Len(ks) : ks[i] = md[p][1] /\ MdReadable(Attrs, i)

\* C13 amended: as stated for a key that is at one position of the list; a key
\* at several positions is in the annotations once, with the value of the last
\* of its positions whose md{i} can be read.
EachKeyReadsItsLastPosition ==
    (decoded[G].status = "Ok" /\ ReadsText(Attrs, Name("mdDescription"))) =>
        LET ks == MdKeys(Attrs)
            md == decoded[G].md
        IN /\ \A i \in 1..Len(ks) :
                 ( /\ MdReadable(Attrs, i)
                   /\ \A j \in (i + 1)..Len(ks) :
                         ks[j] = ks[i] => ~MdReadable(Attrs, j) )
                 => Maps(md, ks[i], MdText(Attrs, i))
           /\ \A p \in 1..Len(md) :
                 \E i \in 1..Len(ks) : ks[i] = md[p][1] /\ MdReadable(Attrs, i)
           /\ \A p, q \in 1..Len(md) : md[p][1] = md[q][1] => p = q

\* the key at position 1 is left out, the key at position 2 has the value of md2
EachKeyReadsItsLastPositionWitness ==
    /\ decoded[G].status = "Ok"
    /\ ReadsText(Attrs, Name("mdDescription"))
    /\ Len(MdKeys(Attrs)) >= 2
    /\ ~MdReadable(Attrs, 1)
    /\ MdReadable(Attrs, 2)
    /\ decoded[G].md = << <<MdKeys(Attrs)[2], MdText(Attrs, 2)>> >>

====
